---- MODULE Spec2Model ----
(***************************************************************************)
(* The colour-scale, selection and view-adapter logic of the river-basin   *)
(* dashboard: components/Map.js, components/TreeMap.js,                    *)
(* components/BarChart.js and pages/index.js.                              *)
(*                                                                         *)
(* JavaScript values are records [t, n, s]: t is the type tag, n the       *)
(* number when t = "number", s the text when t = "string".  Colours are    *)
(* <<red, green, blue>> triples, the channels d3 prints in "rgb(r, g, b)". *)
(***************************************************************************)
EXTENDS Integers, Sequences, FiniteSets, TLC

\* ---------------------------------------------------------------- bounds
\* Largest statistic value of a generated feature.
MaxVal == 3
\* Most features in a generated collection of the scale specification.
MaxLen == 4
\* mapKey grows by one per statistic change; the selector stops here.
MaxMapKey == 3
MaxQueue == 2

\* ------------------------------------------------------------- JS values
Num(k) == [t |-> "number", n |-> k, s |-> ""]
Str(x) == [t |-> "string", n |-> 0, s |-> x]
Null == [t |-> "null", n |-> 0, s |-> ""]
Undefined == [t |-> "undefined", n |-> 0, s |-> ""]
NaN == [t |-> "NaN", n |-> 0, s |-> ""]
PosInfinity == [t |-> "Infinity", n |-> 0, s |-> ""]
NegInfinity == [t |-> "-Infinity", n |-> 0, s |-> ""]

IsNum(v) == v.t = "number"
\* v !== null && v !== undefined
IsPresent(v) == v # Null /\ v # Undefined
\* JavaScript truthiness, as `x || 0` tests it.
Truthy(v) ==
  CASE v.t = "number" -> v.n # 0
    [] v.t = "string" -> v.s # ""
    [] v.t \in {"Infinity", "-Infinity"} -> TRUE
    [] OTHER -> FALSE

\* Array.prototype.filter((v) => v !== null && v !== undefined)
RECURSIVE FilterPresent(_)
FilterPresent(seq) ==
  IF seq = <<>> THEN <<>>
  ELSE IF IsPresent(Head(seq)) THEN <<Head(seq)>> \o FilterPresent(Tail(seq))
       ELSE FilterPresent(Tail(seq))

\* Array.prototype.flatMap: the concatenation of a sequence of sequences.
RECURSIVE Flatten(_)
Flatten(seqs) == IF seqs = <<>> THEN <<>> ELSE Head(seqs) \o Flatten(Tail(seqs))

\* values.sort((a, b) => a - b): each element is inserted before the first
\* element greater than it (Array.prototype.sort is stable).
RECURSIVE InsertAscending(_, _)
InsertAscending(x, sorted) ==
  IF sorted = <<>> THEN <<x>>
  ELSE IF x.n < Head(sorted).n THEN <<x>> \o sorted
       ELSE <<Head(sorted)>> \o InsertAscending(x, Tail(sorted))

RECURSIVE SortAscending(_)
SortAscending(values) ==
  IF values = <<>> THEN <<>>
  ELSE InsertAscending(values[Len(values)],
                       SortAscending(SubSeq(values, 1, Len(values) - 1)))

\* Math.min(...values) and Math.max(...values): Infinity and -Infinity of nothing.
RECURSIVE MathMin(_)
MathMin(values) ==
  IF values = <<>> THEN PosInfinity
  ELSE LET rest == MathMin(Tail(values))
       IN IF rest = PosInfinity \/ Head(values).n < rest.n THEN Head(values) ELSE rest

RECURSIVE MathMax(_)
MathMax(values) ==
  IF values = <<>> THEN NegInfinity
  ELSE LET rest == MathMax(Tail(values))
       IN IF rest = NegInfinity \/ Head(values).n > rest.n THEN Head(values) ELSE rest

\* d3.extent(values): [min, max], or [undefined, undefined] of nothing.
d3extent(values) ==
  IF values = <<>> THEN <<Undefined, Undefined>>
  ELSE <<MathMin(values), MathMax(values)>>

\* ----------------------------------------------------------------- Map.js
MONTHS == <<"jan", "feb", "mar", "apr", "may", "jun",
            "jul", "aug", "sep", "oct", "nov", "dec">>

colorLow == <<44, 123, 182>>     \* '#2c7bb6'
colorMid == <<255, 255, 191>>    \* '#ffffbf'
colorHigh == <<215, 25, 28>>     \* '#d7191c'
colorLight == <<254, 229, 217>>  \* '#fee5d9'
colorDark == <<165, 15, 21>>     \* '#a50f15'
colorNoData == <<211, 211, 211>> \* '#d3d3d3'
colorBlack == <<0, 0, 0>>

\* The default arguments of createDivergingColorScale: the 'percentile' strategy
\* with cutoffValue = 0.3, the fraction CutoffNum / CutoffDen.
CutoffNum == 3
CutoffDen == 10

\* d3.scaleLinear().domain(domain).range(range): the domain is coerced with +x
\* (undefined becomes NaN, null becomes 0); the scale does not clamp unless
\* .clamp(true) is called.
CoerceNumber(v) ==
  IF v.t \in {"number", "Infinity", "-Infinity"} THEN v
  ELSE IF v = Null THEN Num(0)
  ELSE NaN

scaleLinear(domain, range) ==
  [domain |-> [i \in DOMAIN domain |-> CoerceNumber(domain[i])], range |-> range]

\* useState(null): no scale yet.
NoScale == [domain |-> <<>>, range |-> <<>>]

\* Math.round of the rational p / q (q > 0): floor(p / q + 1/2).
RoundRatio(p, q) == (2 * p + q) \div (2 * q)

\* d3-color's channel printing: max(0, min(255, round(value))).
ClampChannel(c) == IF c < 0 THEN 0 ELSE IF c > 255 THEN 255 ELSE c

\* d3.interpolateRgb(from, to) at t = p / q, printed.
InterpolateRgb(from, to, p, q) ==
  [c \in 1..3 |-> ClampChannel(RoundRatio(from[c] * q + p * (to[c] - from[c]), q))]

\* a < b for two coerced numbers, as JavaScript compares them: never with NaN.
Less(a, b) ==
  CASE a = NaN \/ b = NaN -> FALSE
    [] a = PosInfinity \/ b = NegInfinity -> FALSE
    [] a = NegInfinity \/ b = PosInfinity -> TRUE
    [] OTHER -> a.n < b.n

\* One segment of d3's continuous scale over the stops a and b, at the number x:
\* normalize(a, b) is x -> (x - a) / (b - a), or the constant 0.5 when b - a is 0
\* and NaN when it is NaN; the segment interpolates the two range colours.  An
\* infinite b normalizes x to 0; a stop a that is NaN or infinite, or a stop b
\* that is NaN, normalizes x to NaN, and d3 prints the NaN channels as 0.
Segment(a, b, from, to, x) ==
  IF ~IsNum(a) \/ b = NaN THEN colorBlack
  ELSE IF ~IsNum(b) THEN InterpolateRgb(from, to, 0, 1)
  ELSE IF b.n = a.n THEN InterpolateRgb(from, to, 1, 2)
  ELSE IF b.n > a.n THEN InterpolateRgb(from, to, x - a.n, b.n - a.n)
       ELSE InterpolateRgb(from, to, a.n - x, a.n - b.n)

\* d3's bimap: a descending domain is turned round.
Bimap(d, r, x) ==
  IF Less(d[2], d[1]) THEN Segment(d[2], d[1], r[2], r[1], x)
  ELSE Segment(d[1], d[2], r[1], r[2], x)

\* d3's polymap over three stops: a descending domain (last stop below the
\* first) is reversed together with the range, and bisect(domain, x, 1, 2) - 1
\* picks the segment: the second when the middle stop is at most x.
Polymap(d, r, x) ==
  LET descending == Less(d[3], d[1])
      dom == IF descending THEN <<d[3], d[2], d[1]>> ELSE d
      rng == IF descending THEN <<r[3], r[2], r[1]>> ELSE r
  IN IF ~Less(Num(x), dom[2]) /\ dom[2] # NaN
     THEN Segment(dom[2], dom[3], rng[2], rng[3], x)
     ELSE Segment(dom[1], dom[2], rng[1], rng[2], x)

\* scale(x) for a number x.
ApplyScale(scale, x) ==
  IF Len(scale.domain) = 2 THEN Bimap(scale.domain, scale.range, x)
  ELSE Polymap(scale.domain, scale.range, x)

PropertyValues(features, property) ==
  [i \in DOMAIN features |-> features[i].properties[property]]

\* createDivergingColorScale with the cutoff its source comment names, the
\* median, in place of the 30th percentile.
createDivergingColorScaleMedian(data, property) ==
  LET values == SortAscending(FilterPresent(PropertyValues(data.features, property)))
      cutoffIndex == Len(values) \div 2
      minCutoff == IF cutoffIndex + 1 \in DOMAIN values THEN values[cutoffIndex + 1]
                   ELSE Undefined
      extent == d3extent(values)
  IN scaleLinear(<<extent[1], minCutoff, extent[2]>>, <<colorLow, colorMid, colorHigh>>)

createDivergingColorScale(data, property) ==
  LET values == SortAscending(FilterPresent(PropertyValues(data.features, property)))
      cutoffIndex == (Len(values) * CutoffNum) \div CutoffDen
      minCutoff == IF cutoffIndex + 1 \in DOMAIN values THEN values[cutoffIndex + 1]
                   ELSE Undefined
      extent == d3extent(values)
  IN scaleLinear(<<extent[1], minCutoff, extent[2]>>, <<colorLow, colorMid, colorHigh>>)

createQuantileColorScale(data, property) == createDivergingColorScale(data, property)

createFixedContinuousColorScale(min, max) ==
  scaleLinear(<<min, max>>, <<colorLight, colorDark>>)

MonthValues(f) == FilterPresent([m \in DOMAIN MONTHS |-> f.properties[MONTHS[m]]])

calculateMonthlyGlobalMinMax(data) ==
  LET allValues == Flatten([i \in DOMAIN data.features |-> MonthValues(data.features[i])])
  IN [min |-> MathMin(allValues), max |-> MathMax(allValues)]

\* propertyToView / propertyToDisplay
PropertyToView(property, month) == IF property = "monthly" THEN month ELSE property

\* The body of Map's scale-building effect for a non-null collection: the scale
\* it passes to setColorScale and the flag it passes to setIsContinuous.
BuildColorScale(data, property, month, minMax) ==
  IF property = "monthly" /\ ~minMax.isNull
  THEN [scale |-> createFixedContinuousColorScale(minMax.min, minMax.max),
        isContinuous |-> TRUE]
  ELSE [scale |-> createQuantileColorScale(data, PropertyToView(property, month)),
        isContinuous |-> FALSE]

\* The first effect of Map: setMonthlyGlobalMinMax({ min, max }).
MonthlyGlobalMinMax(data) ==
  LET mm == calculateMonthlyGlobalMinMax(data)
  IN [isNull |-> FALSE, min |-> mm.min, max |-> mm.max]

\* geoJSONStyle testing the value against undefined alone.
geoJSONStyleUndefinedOnly(colorScale, property, feature, selectedMapArea, showRivers) ==
  LET value == feature.properties[property]
      isSelected == feature.properties.RIVERBASIN = selectedMapArea
  IN [fillColor |-> IF value = Undefined THEN colorNoData
                    ELSE ApplyScale(colorScale, value.n),
      weight |-> IF isSelected THEN 5 ELSE 2,
      opacity |-> "1",
      color |-> IF isSelected THEN "blue" ELSE "white",
      dashArray |-> "3",
      fillOpacity |-> IF value = Undefined THEN "0.5" ELSE "0.7",
      interactive |-> ~showRivers]

\* Style GeoJSON features (polygons).  A style is a function from option names
\* to values; showRivers is the truth value `!showRivers` tests.
geoJSONStyle(colorScale, property, feature, selectedMapArea, showRivers) ==
  LET value == feature.properties[property]
      isSelected == feature.properties.RIVERBASIN = selectedMapArea
  IN [fillColor |-> IF value = Null \/ value = Undefined THEN colorNoData
                    ELSE ApplyScale(colorScale, value.n),
      weight |-> IF isSelected THEN 5 ELSE 2,
      opacity |-> "1",
      color |-> IF isSelected THEN "blue" ELSE "white",
      dashArray |-> "3",
      fillOpacity |-> IF value = Null \/ value = Undefined THEN "0.5" ELSE "0.7",
      interactive |-> ~showRivers]

\* The arguments geoJSONStyle passes to colorScale while it styles one feature.
geoJSONStyleScaleCalls(property, feature) ==
  LET value == feature.properties[property]
  IN IF value = Null \/ value = Undefined THEN <<>> ELSE <<value>>

\* Leaflet's Path.setStyle: the given options replace those of the same name.
setStyle(options, style) ==
  [k \in DOMAIN options \cup DOMAIN style |->
     IF k \in DOMAIN style THEN style[k] ELSE options[k]]

\* The style the mouseover handler sets on the polygon under the pointer.
hoverStyle == [weight |-> 5, color |-> "#666", dashArray |-> "", fillOpacity |-> "0.9"]

\* updateStyle of onEachFeature: geoJSONStyle is called with three arguments, so
\* selectedMapArea is undefined and `!showRivers` is true.
updateStyle(options, colorScale, propertyToDisplay, feature) ==
  setStyle(options, geoJSONStyle(colorScale, propertyToDisplay, feature, Undefined, FALSE))

\* ------------------------------------------------------------- BarChart.js
DefaultBasin == Str("AMUR")

\* data.find((item) => item.properties.RIVERBASIN === name): the first match's
\* index, 0 when there is none.
RECURSIVE FindFrom(_, _, _)
FindFrom(data, name, i) ==
  IF i > Len(data) THEN 0
  ELSE IF data[i].properties.RIVERBASIN = name THEN i
       ELSE FindFrom(data, name, i + 1)

FindBasin(data, name) == FindFrom(data, name, 1)

\* The month's value with no `|| 0` after it.
OrZeroForgotten(v) == v

\* value || 0
OrZero(v) == IF Truthy(v) THEN v ELSE Num(0)

monthlyData(basinData) == [m \in DOMAIN MONTHS |-> OrZero(basinData.properties[MONTHS[m]])]

\* What BarChart renders: the prompt, the "no data" text, or the chart of one
\* basin (basin is the index of basinData in data).
BarChart(data, selectedBasin) ==
  IF ~Truthy(selectedBasin)
  THEN [view |-> "prompt", basin |-> 0, series |-> <<>>, title |-> Null]
  ELSE LET found == FindBasin(data, selectedBasin)
           basin == IF found # 0 THEN found ELSE FindBasin(data, DefaultBasin)
       IN IF basin = 0
          THEN [view |-> "noData", basin |-> 0, series |-> <<>>, title |-> Null]
          ELSE [view |-> "chart", basin |-> basin, series |-> monthlyData(data[basin]),
                title |-> selectedBasin]

\* -------------------------------------------------------------- TreeMap.js
\* waterScarcity * population: ToNumber(null) is 0.
ToNumber(v) == IF v = Null THEN 0 ELSE v.n
Multiply(a, b) == Num(ToNumber(a) * ToNumber(b))

TreeNode(item) ==
  [id |-> item.properties.RIVERBASIN,
   value |-> Multiply(item.properties.average, item.properties.population),
   population |-> item.properties.population,
   waterScarcity |-> item.properties.average,
   continent |-> item.properties.CONTINENT]

\* Skip if data is missing
IsSkipped(item) ==
  item.properties.average = Undefined \/ item.properties.population = Undefined

RECURSIVE PushChildren(_)
PushChildren(data) ==
  IF data = <<>> THEN <<>>
  ELSE IF IsSkipped(Head(data)) THEN PushChildren(Tail(data))
       ELSE <<TreeNode(Head(data))>> \o PushChildren(Tail(data))

\* children.sort((a, b) => b.value - a.value), stable.
RECURSIVE InsertDescending(_, _)
InsertDescending(x, sorted) ==
  IF sorted = <<>> THEN <<x>>
  ELSE IF x.value.n > Head(sorted).value.n THEN <<x>> \o sorted
       ELSE <<Head(sorted)>> \o InsertDescending(x, Tail(sorted))

RECURSIVE SortDescending(_)
SortDescending(children) ==
  IF children = <<>> THEN <<>>
  ELSE InsertDescending(children[Len(children)],
                        SortDescending(SubSeq(children, 1, Len(children) - 1)))

calculateWaterScarcity(data) ==
  [name |-> "Water Scarcity * Population", children |-> SortDescending(PushChildren(data))]

\* --------------------------------------------------------------- index.js
\* onMapAreaSelect(areaId) and handleTreeMapHover(node): the value that
\* setSelectedBasin stores.
onMapAreaSelect(areaId) == areaId
handleTreeMapHover(node) == node.id

\* The node nivo makes of the hierarchy's root (leavesOnly={false}, id="id"):
\* the root has a name and children but no id.
RootNode(hierarchy) == [id |-> Undefined]

\* ------------------------------------------------------------------ state
VARIABLES
  geojsonData,          \* Home's prop: [isNull, features]
  loading,              \* Home: useState(true)
  selectedBasin,        \* Home: useState(null), the shared selection
  selectedProperty,     \* Map: useState('population')
  selectedMonth,        \* Map: useState('jan')
  colorScale,           \* Map: useState(null)
  isContinuous,         \* Map: useState(false)
  monthlyGlobalMinMax,  \* Map: useState(null): [isNull, min, max]
  mapKey,               \* Map: useState(0)
  showRivers,           \* Map: useState(true)
  isSatellite,          \* Map: useState(false)
  layerStyle,           \* the options of each polygon layer of the mounted GeoJSON
  layerEnv,             \* what the mounted layers' handlers closed over
  styleEffect,          \* react-leaflet's effect of the last batch render has not run yet
  pending,              \* the effects whose state updates React has not rendered yet
  keyUpdates,           \* Map: the setMapKey(prev => prev + 1) calls not rendered yet
  mapMounted,           \* Home: the dynamically imported Map has arrived and is mounted
  treeMapMounted,       \* TreeMap: the dynamically imported ResponsiveTreeMap has arrived
  riversData,           \* Map: useState(null) and the fetch of /river.json that fills it
  basinQueue,           \* Home: the setSelectedBasin calls React has not rendered yet
  pointer,              \* the last pointer event and its target
  call,                 \* the adapter call a function specification applied last
  result                \* and what it returned

vars == <<geojsonData, loading, selectedBasin, selectedProperty, selectedMonth,
          colorScale, isContinuous, monthlyGlobalMinMax, mapKey, showRivers,
          isSatellite, layerStyle, layerEnv, styleEffect, pending, keyUpdates,
          mapMounted, treeMapMounted, riversData, basinQueue, pointer, call, result>>

mapVars == <<loading, selectedBasin, selectedProperty, selectedMonth, isContinuous,
             monthlyGlobalMinMax, mapKey, showRivers, isSatellite, layerStyle,
             layerEnv, styleEffect, pending, keyUpdates, mapMounted, treeMapMounted,
             riversData, basinQueue, pointer>>

\* ------------------------------------------------------- feature collections
BasinNames == <<"AMUR", "NILE", "VOLGA", "CONGO", "INDUS",
                "DANUBE", "GANGES", "MEKONG", "NIGER", "YUKON">>
Continents == <<"Asia", "Africa", "Europe", "Africa", "Asia",
                "Europe", "Asia", "Asia", "Africa", "NorthAmerica">>
MonthNames == {MONTHS[m] : m \in DOMAIN MONTHS}

\* A feature: monthValue maps each month name to its value.
Feature(name, continent, population, average, monthValue) ==
  [properties |->
     [k \in {"RIVERBASIN", "CONTINENT", "population", "average"} \cup MonthNames |->
        CASE k = "RIVERBASIN" -> Str(name)
          [] k = "CONTINENT" -> Str(continent)
          [] k = "population" -> population
          [] k = "average" -> average
          [] OTHER -> monthValue[k]]]

Collection(features) == [isNull |-> FALSE, features |-> features]
NullCollection == [isNull |-> TRUE, features |-> <<>>]

\* The values a generated property takes: absent either way, or a number.
Choices == {Undefined, Null} \cup {Num(k) : k \in 0..MaxVal}

NoMonths == [m \in MonthNames |-> Undefined]

\* The collections of the scale specification: every population list of up to
\* MaxLen entries, and the populations 1..10 (in a shuffled order).
ScaleFeature(i, population) ==
  Feature(BasinNames[i], Continents[i], population, Num(i), NoMonths)

OneToTen == <<7, 2, 10, 4, 1, 9, 3, 6, 8, 5>>

ScaleCollections ==
  {Collection([i \in DOMAIN pops |-> ScaleFeature(i, pops[i])]) :
     pops \in UNION {[1..n -> Choices] : n \in 0..MaxLen}}
  \cup {Collection([i \in DOMAIN OneToTen |-> ScaleFeature(i, Num(OneToTen[i]))])}

NoCall == [op |-> "none"]
NoResult == <<>>
NoMinMax == [isNull |-> TRUE, min |-> Undefined, max |-> Undefined]
NoPointer == [kind |-> "none", target |-> 0]

\* The state of Home and Map as constructed, before any effect has run.
Constructed ==
  /\ loading = TRUE
  /\ selectedBasin = Null
  /\ selectedProperty = "population"
  /\ selectedMonth = "jan"
  /\ colorScale = NoScale
  /\ isContinuous = FALSE
  /\ monthlyGlobalMinMax = NoMinMax
  /\ mapKey = 0
  /\ showRivers = TRUE
  /\ isSatellite = FALSE
  /\ layerStyle = <<>>
  /\ layerEnv = [colorScale |-> NoScale, property |-> "population"]
  /\ styleEffect = FALSE
  /\ pending = {"loading"}
  /\ keyUpdates = 0
  /\ mapMounted = FALSE
  /\ treeMapMounted = FALSE
  /\ riversData = "null"
  /\ basinQueue = <<>>
  /\ pointer = NoPointer
  /\ call = NoCall
  /\ result = NoResult

\* ------------------------------------------- the colour scale as a function
InitScale == geojsonData \in ScaleCollections /\ Constructed

\* createQuantileColorScale(geojsonData, propertyToView) for a diverging statistic.
BuildScale(property) ==
  /\ call.op = "none"
  /\ colorScale' = createQuantileColorScale(geojsonData, property)
  /\ call' = [op |-> "build", property |-> property]
  /\ UNCHANGED <<geojsonData, result>>
  /\ UNCHANGED mapVars

\* colorScale(x)
ProbeScale(x) ==
  /\ call.op = "build"
  /\ call' = [op |-> "scale", property |-> call.property, x |-> x]
  /\ result' = ApplyScale(colorScale, x)
  /\ UNCHANGED <<geojsonData, colorScale>>
  /\ UNCHANGED mapVars

NextScale ==
  \/ \E property \in {"population", "average"} : BuildScale(property)
  \/ \E x \in -1..(MaxVal + 1) : ProbeScale(x)

SpecScale == InitScale /\ [][NextScale]_vars

\* ------------------------------------------------- claims on the colour scale
\* The numbers of the features' present values of the property a scale was built for.
PresentOf(property) ==
  {i \in DOMAIN geojsonData.features :
     IsPresent(geojsonData.features[i].properties[property])}
ValueOf(property, i) == geojsonData.features[i].properties[property].n
ScaleBuilt == call.op \in {"build", "scale"}

\* C1: for a non-empty set of present values, the diverging scale's domain is
\* [minValue, cutoff, maxValue]: minValue and maxValue are the least and the
\* greatest value, and cutoff is the value at zero-based index floor(n * 0.3) of
\* the values in ascending order (fewer than or exactly that many values lie
\* below it, more than that many lie at or below it); so minValue <= cutoff <=
\* maxValue.
C1_DomainIsMinCutoffMax ==
  (ScaleBuilt /\ PresentOf(call.property) # {}) =>
    LET P == PresentOf(call.property)
        v(i) == ValueOf(call.property, i)
        k == (Cardinality(P) * 3) \div 10
        d == colorScale.domain
    IN /\ Len(d) = 3
       /\ \A j \in 1..3 : IsNum(d[j])
       /\ \E i \in P : v(i) = d[1].n
       /\ \A i \in P : d[1].n <= v(i)
       /\ \E i \in P : v(i) = d[3].n
       /\ \A i \in P : v(i) <= d[3].n
       /\ \E i \in P : v(i) = d[2].n
       /\ Cardinality({i \in P : v(i) < d[2].n}) <= k
       /\ k < Cardinality({i \in P : v(i) <= d[2].n})
       /\ d[1].n <= d[2].n /\ d[2].n <= d[3].n
       /\ colorScale.range = <<colorLow, colorMid, colorHigh>>

\* The populations 1..10 give the domain [1, 4, 10].
C1_Witness ==
  /\ call.op = "build" /\ call.property = "population"
  /\ Cardinality(PresentOf("population")) = 10
  /\ colorScale.domain = <<Num(1), Num(4), Num(10)>>

\* C2: a scale built from exactly one distinct value maps every input to colorMid.
C2_OneValueMapsToMid ==
  (/\ call.op = "scale"
   /\ PresentOf(call.property) # {}
   /\ colorScale.domain[1] = colorScale.domain[3]) => result = colorMid

\* C3: for a scale built from two or more distinct values, an input below
\* minValue maps to colorLow, an input above maxValue to colorHigh, the three
\* stops map to colorLow, colorMid and colorHigh, and an input between two
\* consecutive stops maps to the linear interpolation of their colours.
C3_ClampsAndInterpolates ==
  (/\ call.op = "scale"
   /\ PresentOf(call.property) # {}
   /\ colorScale.domain[1] # colorScale.domain[3]) =>
    LET lo == colorScale.domain[1].n
        mid == colorScale.domain[2].n
        hi == colorScale.domain[3].n
        x == call.x
    IN /\ x <= lo => result = colorLow
       /\ x >= hi => result = colorHigh
       /\ x = mid => result = colorMid
       /\ (lo < x /\ x < mid) => result = InterpolateRgb(colorLow, colorMid, x - lo, mid - lo)
       /\ (mid < x /\ x < hi) => result = InterpolateRgb(colorMid, colorHigh, x - mid, hi - mid)

\* ------------------------------------------------ the view adapters as functions
\* The collections of the adapter specification: two generated features and a
\* fixed third.  A generated feature's two values are its population and average
\* and also its jan and jul; the collection starts at AMUR or, to leave the
\* default basin out, at NILE.
AverageChoices == {Undefined, Null, Num(2)}

ViewFeature(first, i, a, b) ==
  Feature(BasinNames[first + i], Continents[first + i], a, b,
          [m \in MonthNames |-> IF m = "jan" THEN a ELSE IF m = "jul" THEN b ELSE Num(i + 1)])

ViewCollections ==
  {Collection(<<ViewFeature(first, 0, a1, b1),
                ViewFeature(first, 1, a2, b2),
                Feature(BasinNames[first + 2], Continents[first + 2], Num(2), Num(1),
                        [m \in MonthNames |-> IF m = "oct" THEN Null ELSE Num(1)])>>) :
     first \in {1, 2}, a1 \in Choices, b1 \in AverageChoices,
     a2 \in Choices, b2 \in AverageChoices}

\* The selections the adapters are given: none, and names in and out of the collection.
Selections == {Null, Str("AMUR"), Str("NILE"), Str("YUKON")}
StyleSelections == {Null, Str("AMUR"), Str("YUKON")}

\* The statistics the selector can show: population, average, and each month.
Statistics ==
  {<<"population", "jan">>, <<"average", "jan">>} \cup {<<"monthly", m>> : m \in MonthNames}

InitViews == geojsonData \in ViewCollections /\ Constructed

\* <BarChart data={geojsonData.features} selectedBasin={selectedBasin} />
RenderBarChart(selection) ==
  /\ call.op = "none"
  /\ call' = [op |-> "bar", selected |-> selection]
  /\ result' = BarChart(geojsonData.features, selection)
  /\ UNCHANGED <<geojsonData, colorScale>>
  /\ UNCHANGED mapVars

\* TreeMap: calculateWaterScarcity(geojsonData.features)
RenderTreeMap ==
  /\ call.op = "none"
  /\ call' = [op |-> "tree"]
  /\ result' = calculateWaterScarcity(geojsonData.features)
  /\ UNCHANGED <<geojsonData, colorScale>>
  /\ UNCHANGED mapVars

\* The style prop of <GeoJSON> for one feature, with the scale Map builds for
\* the statistic: geoJSONStyle(colorScale, property, feature, selectedMapArea, showRivers).
StylePolygon(i, property, month, selection) ==
  LET built == BuildColorScale(geojsonData, property, month, MonthlyGlobalMinMax(geojsonData))
      displayed == PropertyToView(property, month)
  IN /\ call.op = "none"
     /\ colorScale' = built.scale
     /\ call' = [op |-> "style", feature |-> i, statistic |-> property,
                 property |-> displayed, selected |-> selection]
     /\ result' = [style |-> geoJSONStyle(built.scale, displayed, geojsonData.features[i],
                                          selection, showRivers),
                   scaleCalls |-> geoJSONStyleScaleCalls(displayed, geojsonData.features[i])]
     /\ UNCHANGED geojsonData
     /\ UNCHANGED mapVars

NextViews ==
  \/ \E selection \in Selections : RenderBarChart(selection)
  \/ RenderTreeMap
  \/ \E i \in DOMAIN geojsonData.features, st \in Statistics, selection \in StyleSelections :
       StylePolygon(i, st[1], st[2], selection)

SpecViews == InitViews /\ [][NextViews]_vars

\* ------------------------------------------------ claims on the view adapters
Features == geojsonData.features
NamesInCollection == {Features[i].properties.RIVERBASIN : i \in DOMAIN Features}
IndexOfBasin(name) == CHOOSE i \in DOMAIN Features : Features[i].properties.RIVERBASIN = name

\* The twelve values of a feature in month order, 0 for an absent one.
SeriesOf(i) ==
  [m \in 1..12 |->
     IF IsPresent(Features[i].properties[MONTHS[m]]) THEN Features[i].properties[MONTHS[m]]
     ELSE Num(0)]

\* C6: a selection that names no feature of the collection resolves to the
\* default basin AMUR in every consuming view: the bar chart shows AMUR's series
\* and the map gives AMUR's polygon the selected border.
C6_UnresolvedFallsBackEverywhere ==
  LET unresolved == /\ call.selected # Null
                    /\ call.selected \notin NamesInCollection
                    /\ DefaultBasin \in NamesInCollection
  IN /\ (call.op = "bar" /\ unresolved) =>
          /\ result.view = "chart"
          /\ result.series = SeriesOf(IndexOfBasin(DefaultBasin))
     /\ (call.op = "style" /\ unresolved
           /\ Features[call.feature].properties.RIVERBASIN = DefaultBasin) =>
          /\ result.style.weight = 5
          /\ result.style.color = "blue"

\* C8: the bar-chart series of a feature has twelve entries in month order, each
\* the feature's value for the month or 0 when that value is absent; the domain
\* of a scale holds present values of the collection only, never a 0 that stands
\* for an absent one.
C8_SeriesZeroFilledScaleUnfilled ==
  /\ (call.op = "bar" /\ result.view = "chart") =>
       /\ Len(result.series) = 12
       /\ result.series = SeriesOf(result.basin)
  /\ call.op = "style" =>
       LET source == IF call.statistic = "monthly" THEN MonthNames ELSE {call.property}
           present == {Features[i].properties[p] : i \in DOMAIN Features, p \in source}
                        \ {Null, Undefined}
       IN \A j \in DOMAIN colorScale.domain :
            IF present = {} THEN ~IsNum(colorScale.domain[j])
            ELSE colorScale.domain[j] \in present

\* A charted feature that has no jul value: its series has 0 for jul and a
\* value that is not 0 for feb.
C8_Witness ==
  /\ call.op = "bar" /\ result.view = "chart"
  /\ ~IsPresent(Features[result.basin].properties.jul)
  /\ result.series[7] = Num(0)
  /\ result.series[2] = Features[result.basin].properties.feb
  /\ result.series[2] # Num(0)

\* C9: a feature whose value for the displayed property is absent (null or
\* undefined) is filled with #d3d3d3 at fill opacity 0.5 and its value is not
\* passed to the colour function; any other feature is filled with
\* colorScale(value) at fill opacity 0.7.
C9_AbsentIsGreyAndUnscaled ==
  call.op = "style" =>
    LET value == Features[call.feature].properties[call.property]
    IN IF value \in {Null, Undefined}
       THEN /\ result.scaleCalls = <<>>
            /\ result.style.fillColor = colorNoData
            /\ result.style.fillOpacity = "0.5"
       ELSE /\ result.scaleCalls = <<value>>
            /\ result.style.fillColor = ApplyScale(colorScale, value.n)
            /\ result.style.fillOpacity = "0.7"

\* A polygon styled for a month whose value is null, in a collection that has
\* other values for the months.
C9_Witness ==
  /\ call.op = "style" /\ call.property = "jan"
  /\ Features[call.feature].properties.jan = Null
  /\ result.style.fillColor = colorNoData
  /\ \A j \in DOMAIN colorScale.domain : IsNum(colorScale.domain[j])

\* C10: the hierarchy's children are in non-increasing order of value; each is
\* the node of a feature that has both population and average, with value =
\* population * average and the feature's name, population, average and
\* continent; every such feature has exactly one child and no other feature has one.
C10_OneChildPerCompleteFeature ==
  call.op = "tree" =>
    LET children == result.children
        complete == {i \in DOMAIN Features :
                       /\ IsPresent(Features[i].properties.population)
                       /\ IsPresent(Features[i].properties.average)}
        nodeOf(i) == [id |-> Features[i].properties.RIVERBASIN,
                      value |-> Num(Features[i].properties.population.n
                                      * Features[i].properties.average.n),
                      population |-> Features[i].properties.population,
                      waterScarcity |-> Features[i].properties.average,
                      continent |-> Features[i].properties.CONTINENT]
    IN /\ \A k \in 1..(Len(children) - 1) : children[k].value.n >= children[k + 1].value.n
       /\ Len(children) = Cardinality(complete)
       /\ \A i \in complete : \E k \in DOMAIN children : children[k] = nodeOf(i)
       /\ \A k \in DOMAIN children : \E i \in complete : children[k] = nodeOf(i)

\* ------------------------------------------------------- the page as it runs
\* The collections the page is run on: AMUR (population and jan 0) and NILE
\* (population and jan 1), both with average and jul 2; the collection of no
\* features; and the collection that failed to load.
MapCollections ==
  {Collection(<<ViewFeature(1, 0, Num(0), Num(2)), ViewFeature(1, 1, Num(1), Num(2))>>),
   Collection(<<>>), NullCollection}

\* The months the slider is moved to: the two a generated feature has its own
\* values for.
SliderMonths == {"jan", "jul"}

Init == geojsonData \in MapCollections /\ Constructed

\* What one commit of Map leaves on the polygon layers.  <GeoJSON> is rendered
\* only with a scale.  Under a new key (`${selectedProperty}-${mapKey}`, or a new
\* MapContainer key) Leaflet builds the layers afresh: it applies the style prop
\* and then calls onEachFeature, whose updateStyle restyles the layer.  Under
\* the same key react-leaflet passes the new style prop to setStyle.
CommitLayers(styles, oldProperty, oldKey, scale, property, month, key, selection, rivers) ==
  LET features == geojsonData.features
      displayed == PropertyToView(property, month)
      styleProp(i) == geoJSONStyle(scale, displayed, features[i], selection, rivers)
  IN IF scale = NoScale THEN <<>>
     ELSE IF styles = <<>> \/ oldProperty # property \/ oldKey # key
          THEN [i \in DOMAIN features |->
                  updateStyle(setStyle(<<>>, styleProp(i)), scale, displayed, features[i])]
          ELSE [i \in DOMAIN features |-> setStyle(styles[i], styleProp(i))]

\* What the handlers of the layers close over after that commit.
CommitEnv(styles, env, oldProperty, oldKey, scale, property, month, key) ==
  IF scale # NoScale /\ (styles = <<>> \/ oldProperty # property \/ oldKey # key)
  THEN [colorScale |-> scale, property |-> PropertyToView(property, month)]
  ELSE env

\* Home's effect: setLoading(false) when there is data, and the render of Home
\* it causes.  Map and the treemap's ResponsiveTreeMap are imported dynamically
\* (next/dynamic): that render shows the bar chart, and their places stay empty
\* until their chunks arrive.
HomeEffect ==
  /\ pending = {"loading"}
  /\ loading' = geojsonData.isNull
  /\ pending' = {}
  /\ UNCHANGED <<styleEffect, geojsonData, selectedBasin, selectedProperty, selectedMonth, colorScale,
                 isContinuous, monthlyGlobalMinMax, mapKey, showRivers, isSatellite,
                 layerStyle, layerEnv, keyUpdates, mapMounted, treeMapMounted, riversData,
                 basinQueue, pointer, call, result>>

\* The chunk of Map arrives: Map mounts and renders without a scale, and the
\* effects of that commit run: they queue the min/max, the scale and the map
\* key, and send the fetch of /river.json.
MapArrives ==
  /\ ~loading /\ ~mapMounted
  /\ mapMounted' = TRUE
  /\ pending' = {"minMax", "scale", "mapKey"}
  /\ keyUpdates' = 1
  /\ riversData' = "fetching"
  /\ UNCHANGED <<styleEffect, geojsonData, loading, selectedBasin, selectedProperty, selectedMonth,
                 colorScale, isContinuous, monthlyGlobalMinMax, mapKey, showRivers,
                 isSatellite, layerStyle, layerEnv, treeMapMounted, basinQueue, pointer,
                 call, result>>

\* The chunk of ResponsiveTreeMap arrives: the treemap is rendered.
TreeMapArrives ==
  /\ ~loading /\ ~treeMapMounted
  /\ treeMapMounted' = TRUE
  /\ UNCHANGED <<styleEffect, geojsonData, loading, selectedBasin, selectedProperty, selectedMonth,
                 colorScale, isContinuous, monthlyGlobalMinMax, mapKey, showRivers,
                 isSatellite, layerStyle, layerEnv, pending, keyUpdates, mapMounted,
                 riversData, basinQueue, pointer, call, result>>

\* The response of fetch('/river.json') arrives: setRiversData(data) is queued.
RiversArrive ==
  /\ riversData = "fetching"
  /\ riversData' = "arrived"
  /\ UNCHANGED <<styleEffect, geojsonData, loading, selectedBasin, selectedProperty, selectedMonth,
                 colorScale, isContinuous, monthlyGlobalMinMax, mapKey, showRivers,
                 isSatellite, layerStyle, layerEnv, pending, keyUpdates, mapMounted,
                 treeMapMounted, basinQueue, pointer, call, result>>

\* The style prop of the committed render, passed to setStyle for every layer:
\* react-leaflet's updateGeoJSON, an effect of <GeoJSON>.
UpdatedStyles ==
  [i \in DOMAIN layerStyle |->
     setStyle(layerStyle[i],
              geoJSONStyle(colorScale, PropertyToView(selectedProperty, selectedMonth),
                           geojsonData.features[i], selectedBasin, showRivers))]

\* The layers once React has run the effects that are still outstanding, as it
\* does before it renders again.
FlushedStyles == IF styleEffect THEN UpdatedStyles ELSE layerStyle

\* React renders everything queued in one batch: the setSelectedBasin calls in
\* order (the last one wins), the updates of Map's effects and the rivers data.
\* The queued scale is the one the effect built from the values of the last
\* commit; the effects of an earlier commit that ran for the same dependencies
\* are overwritten by it.  When nothing but an unchanged selection is queued
\* React bails out and the polygons are not styled again.  A commit with a new
\* map key mounts a new MapContainer, whose map, layers and effects are
\* complete when the task ends: the arrival of the min/max, a dependency of
\* the scale-building effect, queues a new scale.  A commit under the same key
\* leaves the polygons as they are: react-leaflet passes the new style prop to
\* setStyle in an effect, which React runs in a later task (UpdateGeoJSON).
Render ==
  /\ ~loading
  /\ basinQueue # <<>> \/ pending # {} \/ riversData = "arrived"
  /\ LET selection == IF basinQueue = <<>> THEN selectedBasin
                      ELSE basinQueue[Len(basinQueue)]
         built == BuildColorScale(geojsonData, selectedProperty, selectedMonth,
                                  monthlyGlobalMinMax)
         scale == IF "scale" \in pending THEN built.scale ELSE colorScale
         key == mapKey + keyUpdates
         rendersMap == /\ mapMounted
                       /\ \/ pending # {}
                          \/ riversData = "arrived"
                          \/ selection # selectedBasin
         remounts == rendersMap /\ (key # mapKey \/ colorScale = NoScale)
     IN /\ selectedBasin' = selection
        /\ monthlyGlobalMinMax' = IF "minMax" \in pending
                                  THEN MonthlyGlobalMinMax(geojsonData)
                                  ELSE monthlyGlobalMinMax
        /\ colorScale' = scale
        /\ isContinuous' = IF "scale" \in pending THEN built.isContinuous ELSE isContinuous
        /\ mapKey' = key
        /\ layerStyle' = IF remounts
                         THEN CommitLayers(FlushedStyles, selectedProperty, mapKey, scale,
                                           selectedProperty, selectedMonth, key, selection,
                                           showRivers)
                         ELSE FlushedStyles
        /\ layerEnv' = IF remounts
                       THEN CommitEnv(FlushedStyles, layerEnv, selectedProperty, mapKey,
                                      scale, selectedProperty, selectedMonth, key)
                       ELSE layerEnv
        /\ styleEffect' = (rendersMap /\ ~remounts /\ layerStyle # <<>>)
  /\ basinQueue' = <<>>
  /\ keyUpdates' = 0
  /\ riversData' = IF riversData = "arrived" THEN "loaded" ELSE riversData
  /\ pending' = IF "minMax" \in pending THEN {"scale"} ELSE {}
  /\ UNCHANGED <<geojsonData, loading, selectedProperty, selectedMonth, showRivers,
                 isSatellite, mapMounted, treeMapMounted, pointer, call, result>>

\* React runs the outstanding effect of <GeoJSON>: every polygon gets the style
\* prop of the committed render, whatever a pointer handler gave it since.
UpdateGeoJSON ==
  /\ styleEffect
  /\ layerStyle' = UpdatedStyles
  /\ styleEffect' = FALSE
  /\ UNCHANGED <<geojsonData, loading, selectedBasin, selectedProperty, selectedMonth,
                 colorScale, isContinuous, monthlyGlobalMinMax, mapKey, showRivers,
                 isSatellite, layerEnv, pending, keyUpdates, mapMounted, treeMapMounted,
                 riversData, basinQueue, pointer, call, result>>

\* Map is mounted: its controls take events, whatever is queued.
Idle == ~loading /\ mapMounted

\* The render React makes at once of an event of Map's controls: it applies the
\* event's own update and leaves what is queued for the next batch.  React runs
\* the outstanding effects before that render, and the render's own effects
\* (react-leaflet's setStyle among them) before the event's task ends.
Rerender(styles, month, selection, rivers) ==
  CommitLayers(styles, selectedProperty, mapKey, colorScale, selectedProperty, month,
               mapKey, selection, rivers)

\* onChange of the statistic <select>; the scale-building and the map-key
\* effect run at the end of the commit and queue their updates.
SetSelectedProperty(property) ==
  /\ Idle
  /\ property # selectedProperty
  /\ mapKey + keyUpdates < MaxMapKey
  /\ selectedProperty' = property
  /\ layerStyle' = CommitLayers(FlushedStyles, selectedProperty, mapKey, colorScale,
                                property, selectedMonth, mapKey, selectedBasin, showRivers)
  /\ layerEnv' = CommitEnv(FlushedStyles, layerEnv, selectedProperty, mapKey, colorScale,
                           property, selectedMonth, mapKey)
  /\ styleEffect' = FALSE
  /\ pending' = pending \cup {"scale", "mapKey"}
  /\ keyUpdates' = keyUpdates + 1
  /\ UNCHANGED <<geojsonData, loading, selectedBasin, selectedMonth, colorScale,
                 isContinuous, monthlyGlobalMinMax, mapKey, showRivers, isSatellite,
                 mapMounted, treeMapMounted, riversData, basinQueue, pointer, call, result>>

\* onChange of the month slider, which is rendered for 'monthly' only; the
\* scale-building effect runs at the end of the commit.
SetSelectedMonth(month) ==
  /\ Idle
  /\ selectedProperty = "monthly"
  /\ month # selectedMonth
  /\ selectedMonth' = month
  /\ styleEffect' = FALSE
  /\ layerStyle' = Rerender(FlushedStyles, month, selectedBasin, showRivers)
  /\ pending' = pending \cup {"scale"}
  /\ UNCHANGED <<geojsonData, loading, selectedBasin, selectedProperty, colorScale,
                 isContinuous, monthlyGlobalMinMax, mapKey, showRivers, isSatellite,
                 layerEnv, keyUpdates, mapMounted, treeMapMounted, riversData, basinQueue,
                 pointer, call, result>>

\* onClick of the rivers button
ToggleRivers ==
  /\ Idle
  /\ showRivers' = ~showRivers
  /\ styleEffect' = FALSE
  /\ layerStyle' = Rerender(FlushedStyles, selectedMonth, selectedBasin, ~showRivers)
  /\ UNCHANGED <<geojsonData, loading, selectedBasin, selectedProperty, selectedMonth,
                 colorScale, isContinuous, monthlyGlobalMinMax, mapKey, isSatellite,
                 layerEnv, pending, keyUpdates, mapMounted, treeMapMounted, riversData,
                 basinQueue, pointer, call, result>>

\* onClick of the satellite button
ToggleSatellite ==
  /\ Idle
  /\ isSatellite' = ~isSatellite
  /\ styleEffect' = FALSE
  /\ layerStyle' = Rerender(FlushedStyles, selectedMonth, selectedBasin, showRivers)
  /\ UNCHANGED <<geojsonData, loading, selectedBasin, selectedProperty, selectedMonth,
                 colorScale, isContinuous, monthlyGlobalMinMax, mapKey, showRivers,
                 layerEnv, pending, keyUpdates, mapMounted, treeMapMounted, riversData,
                 basinQueue, pointer, call, result>>

\* setSelectedBasin(value) in a pointer handler: React queues the update and
\* renders later; further handlers may run before it does.
Select(value) ==
  /\ Len(basinQueue) < MaxQueue
  /\ basinQueue' = Append(basinQueue, value)
  /\ UNCHANGED <<styleEffect, geojsonData, loading, selectedBasin, selectedProperty, selectedMonth,
                 colorScale, isContinuous, monthlyGlobalMinMax, mapKey, showRivers,
                 isSatellite, layerEnv, pending, keyUpdates, mapMounted, treeMapMounted,
                 riversData, call, result>>

\* mouseover of polygon i: onMapAreaSelect(name), then the hover style.  (The
\* layers are interactive whatever showRivers is: updateStyle sets `interactive`
\* to true before Leaflet adds them to the map.)
MapMouseOver(i) ==
  /\ Idle
  /\ i \in DOMAIN layerStyle
  /\ pointer.kind # "mapEnter"
  /\ pointer' = [kind |-> "mapEnter", target |-> i]
  /\ layerStyle' = [layerStyle EXCEPT ![i] = setStyle(@, hoverStyle)]
  /\ Select(onMapAreaSelect(geojsonData.features[i].properties.RIVERBASIN))

\* mouseout of the polygon the pointer is on: updateStyle with the values the
\* handler closed over, then onMapAreaSelect(null).
MapMouseOut(i) ==
  /\ Idle
  /\ i \in DOMAIN layerStyle
  /\ pointer = [kind |-> "mapEnter", target |-> i]
  /\ pointer' = [kind |-> "mapLeave", target |-> 0]
  /\ layerStyle' = [layerStyle EXCEPT ![i] = updateStyle(@, layerEnv.colorScale,
                                                        layerEnv.property,
                                                        geojsonData.features[i])]
  /\ Select(onMapAreaSelect(Null))

\* onMouseEnter of the treemap's node k: leaf k of the hierarchy, or its root
\* for k = 0 (the treemap is rendered with leavesOnly={false}).
TreeMapHover(k) ==
  /\ ~loading /\ treeMapMounted
  /\ pointer.kind # "mapEnter"
  /\ LET hierarchy == calculateWaterScarcity(geojsonData.features)
     IN /\ k = 0 \/ k \in DOMAIN hierarchy.children
        /\ pointer' = [kind |-> IF k = 0 THEN "treeRoot" ELSE "treeEnter", target |-> k]
        /\ Select(handleTreeMapHover(IF k = 0 THEN RootNode(hierarchy)
                                     ELSE hierarchy.children[k]))
  /\ layerStyle' = layerStyle

Next ==
  \/ HomeEffect
  \/ MapArrives
  \/ TreeMapArrives
  \/ RiversArrive
  \/ Render
  \/ UpdateGeoJSON
  \/ \E property \in {"population", "average", "monthly"} : SetSelectedProperty(property)
  \/ \E month \in SliderMonths : SetSelectedMonth(month)
  \/ ToggleRivers
  \/ ToggleSatellite
  \/ \E i \in DOMAIN geojsonData.features : MapMouseOver(i)
  \/ \E i \in DOMAIN geojsonData.features : MapMouseOut(i)
  \/ \E k \in {0} \cup DOMAIN geojsonData.features : TreeMapHover(k)

Spec == Init /\ [][Next]_vars

\* ---------------------------------------------------- claims on the running page
\* The present monthly values of every feature and every month.
PresentMonthly ==
  {Features[i].properties[m] : i \in DOMAIN Features, m \in MonthNames} \ {Null, Undefined}

\* C4: while the selected statistic is 'monthly', the colour scale in use has
\* the domain [min, max], the least and the greatest present monthly value of
\* all features and all twelve months, whichever month the slider selects and
\* whatever slider events came before.
C4_MonthlyDomainIsGlobal ==
  (selectedProperty = "monthly" /\ colorScale # NoScale /\ PresentMonthly # {}) =>
    colorScale.domain
      = <<CHOOSE lo \in PresentMonthly : \A v \in PresentMonthly : lo.n <= v.n,
          CHOOSE hi \in PresentMonthly : \A v \in PresentMonthly : v.n <= hi.n>>

\* C5: the selection is what the most recent pointer event wrote, and that
\* event is one of three: the basin name of the polygon or of the treemap leaf
\* entered, none after leaving a polygon (and none before any event).  The
\* write is the last of the queued setSelectedBasin calls until React renders
\* them, and the selection from then on; nothing else writes it.
C5_SelectionIsLastWrite ==
  LET written == IF basinQueue = <<>> THEN selectedBasin ELSE basinQueue[Len(basinQueue)]
  IN /\ pointer.kind \in {"none", "mapEnter", "mapLeave", "treeEnter"}
     /\ pointer.kind = "none" => basinQueue = <<>>
     /\ pointer.kind \in {"none", "mapLeave"} => written = Null
     /\ pointer.kind = "mapEnter" =>
          written = Features[pointer.target].properties.RIVERBASIN
     /\ pointer.kind = "treeEnter" =>
          \E i \in DOMAIN Features :
            /\ written = Features[i].properties.RIVERBASIN
            /\ calculateWaterScarcity(Features).children[pointer.target]
                 = [id |-> Features[i].properties.RIVERBASIN,
                    value |-> Multiply(Features[i].properties.average,
                                       Features[i].properties.population),
                    population |-> Features[i].properties.population,
                    waterScarcity |-> Features[i].properties.average,
                    continent |-> Features[i].properties.CONTINENT]

\* C7: in every rendered map state (every queued selection write rendered, the
\* effect of <GeoJSON> run) with the pointer off the polygons, a polygon has the selected border (weight 5,
\* colour blue) exactly when its basin name is the selection; with no selection
\* no polygon has it.
C7_SelectedBorderIffSelected ==
  (basinQueue = <<>> /\ ~styleEffect /\ pointer.kind # "mapEnter") =>
    \A i \in DOMAIN layerStyle :
      (layerStyle[i].weight = 5 /\ layerStyle[i].color = "blue")
        <=> (Features[i].properties.RIVERBASIN = selectedBasin)

\* ------------------------------------------------------- the page, scheduled
\* Render is enabled exactly when something is queued, and it always empties
\* what is queued.
RenderEnabled == ~loading /\ (basinQueue # <<>> \/ pending # {} \/ riversData = "arrived")

\* React runs a committed render's effects and renders what is queued: Home's
\* effect, the batch render and the effect of <GeoJSON> do not wait for ever
\* (weak fairness of each, that of the last two written out over their
\* enabling conditions).  The events of the
\* user and the arrival of chunks and responses are under no such obligation.
SpecLive ==
  /\ Spec
  /\ WF_vars(HomeEffect)
  /\ ([]<>(~RenderEnabled) \/ []<><<Render>>_vars)
  /\ ([]<>(~styleEffect) \/ []<><<UpdateGeoJSON>>_vars)

\* The collection failed to load, or it has no features.
NoCollection == geojsonData.isNull \/ geojsonData.features = <<>>

\* Every value of the scale's domain is a finite number.
FiniteDomain(scale) == \A j \in DOMAIN scale.domain : IsNum(scale.domain[j])

\* C11: when the collection is absent (null) or has no features, the page
\* leaves its loading state for good (the views are rendered, with nothing to
\* show), and no colour scale is ever built over an undefined or infinite domain.
C11_NoDataIsReached ==
  NoCollection => /\ <>[](~loading)
                  /\ [](FiniteDomain(colorScale))

\* ------------------------------------------- claims on the scale's recomputation
\* The scale and the flag Map's effect builds from the present selector state.
ScaleForSelection ==
  BuildColorScale(geojsonData, selectedProperty, selectedMonth, monthlyGlobalMinMax)

\* C12: in every state in which the map has rendered polygons, the scale in use
\* is the one built for the currently selected statistic, and every polygon's
\* fill is that scale's colour of the polygon's value for that statistic: no
\* render styles the new statistic with the previous statistic's scale.
C12_ScaleIsForSelectedStatistic ==
  layerStyle # <<>> =>
    LET displayed == PropertyToView(selectedProperty, selectedMonth)
    IN /\ colorScale = ScaleForSelection.scale
       /\ ~styleEffect =>
          \A i \in DOMAIN layerStyle :
            layerStyle[i].fillColor =
              IF IsPresent(Features[i].properties[displayed])
              THEN ApplyScale(ScaleForSelection.scale, Features[i].properties[displayed].n)
              ELSE colorNoData

\* A step changes the statistic selector: the statistic or the month.
SelectorChanges == selectedProperty' # selectedProperty \/ selectedMonth' # selectedMonth

\* A step's commit runs the scale-building effect, which rebuilds the scale
\* and queues it to replace colorScale (seen where none was queued already).
ScaleEffectScheduled == "scale" \in pending' /\ pending' # pending

\* Map mounts: its chunk has arrived and its first render is committed.
MapMounts == ~mapMounted /\ mapMounted'

\* C13: every change of the statistic selector (statistic or month) schedules a
\* recomputation of the scale, and nothing else does after the map has mounted:
\* not a selection write, not the rivers or the satellite toggle, not the
\* arrival of the global monthly min/max.
C13_RecomputedOnSelectorChangeOnly ==
  [][/\ SelectorChanges => "scale" \in pending'
     /\ ScaleEffectScheduled => (SelectorChanges \/ MapMounts)]_vars

\* C14: whenever a colour scale exists, isContinuous is true exactly when the
\* scale has the two-stop domain [min, max] (otherwise it has the three-stop
\* domain), so the legend reads the domain in the scale's own shape; and that
\* is exactly when the statistic the scale was built for is 'monthly': the
\* scale a render puts in use was built by the effect of the commit before it,
\* for the statistic that is selected.
C14_FlagAgreesWithScale ==
  /\ [](colorScale # NoScale =>
          /\ isContinuous <=> Len(colorScale.domain) = 2
          /\ ~isContinuous <=> Len(colorScale.domain) = 3)
  /\ [][colorScale' # colorScale =>
          (isContinuous' <=> selectedProperty' = "monthly")]_vars

====
